---- MODULE Spec2Model ----
(***************************************************************************)
(* Sol Voice Assistant (src/app.py): the per-turn pipeline of the two      *)
(* webhook handlers, initial_voice_handler (/voice) and                    *)
(* handle_speech_input (/handle_speech_input), with the helpers            *)
(* text_to_elevenlabs_audio, say_fallback, say_fallback_with_gather and    *)
(* notify_error.                                                           *)
(*                                                                         *)
(* Texts are sequences of one-character strings, so that str.strip(),      *)
(* str.lower() and the substring test `in` are computed, not assumed.      *)
(* A TwiML VoiceResponse is the sequence of its verbs.  The telephony      *)
(* instruction of the specification is read off that sequence: the         *)
(* delivery mode is the first verb (Play or Say), the payload its          *)
(* argument, the continuation mode is whether a Record verb follows.       *)
(*                                                                         *)
(* External services (recording storage, Whisper, GPT-4o, ElevenLabs, the  *)
(* file system, SMTP) answer nondeterministically with every outcome the   *)
(* code distinguishes.  The call identifier is a text of the request.      *)
(***************************************************************************)
EXTENDS Integers, Sequences, FiniteSets

\* ---------------------------------------------------------------------------
\* Bounds of the model
\* ---------------------------------------------------------------------------
\* longest text drawn character by character for a transcript or a reply
MaxShortLen == 1
\* largest number of bytes of a fetched recording
MaxAudioLen == 1
\* largest number of chunks ElevenLabs streams in one response
MaxChunks == 2
\* largest number of bytes in one streamed chunk
MaxChunkLen == 1
\* file names generated for the audio directory after which no further
\* request is taken
MaxFiles == 1

\* ---------------------------------------------------------------------------
\* Texts
\* ---------------------------------------------------------------------------
\* src/app.py:288 and :314, the substring tested: 'hang up and call 000'
EMERGENCY_PHRASE ==
  << "h", "a", "n", "g", " ", "u", "p", " ", "a", "n", "d", " ", "c", "a",
     "l", "l", " ", "0", "0", "0" >>

\* src/app.py:173: 'Our system is experiencing issues. Please try again later.'
MSG_VOICE_NO_CLIENT ==
  << "O", "u", "r", " ", "s", "y", "s", "t", "e", "m", " ", "i", "s", " ",
     "e", "x", "p", "e", "r", "i", "e", "n", "c", "i", "n", "g", " ", "i",
     "s", "s", "u", "e", "s", ".", " ", "P", "l", "e", "a", "s", "e", " ",
     "t", "r", "y", " ", "a", "g", "a", "i", "n", " ", "l", "a", "t", "e",
     "r", "." >>

\* src/app.py:210: 'Our system is having trouble. Please try again later.'
MSG_SPEECH_NO_CLIENT ==
  << "O", "u", "r", " ", "s", "y", "s", "t", "e", "m", " ", "i", "s", " ",
     "h", "a", "v", "i", "n", "g", " ", "t", "r", "o", "u", "b", "l", "e",
     ".", " ", "P", "l", "e", "a", "s", "e", " ", "t", "r", "y", " ", "a",
     "g", "a", "i", "n", " ", "l", "a", "t", "e", "r", "." >>

\* src/app.py:175: "Hello! You've reached Northern Skin Doctors. This is Sol, your virtual assistant. How can I assist you today?"
greeting_text ==
  << "H", "e", "l", "l", "o", "!", " ", "Y", "o", "u", "'", "v", "e", " ",
     "r", "e", "a", "c", "h", "e", "d", " ", "N", "o", "r", "t", "h", "e",
     "r", "n", " ", "S", "k", "i", "n", " ", "D", "o", "c", "t", "o", "r",
     "s", ".", " ", "T", "h", "i", "s", " ", "i", "s", " ", "S", "o", "l",
     ",", " ", "y", "o", "u", "r", " ", "v", "i", "r", "t", "u", "a", "l",
     " ", "a", "s", "s", "i", "s", "t", "a", "n", "t", ".", " ", "H", "o",
     "w", " ", "c", "a", "n", " ", "I", " ", "a", "s", "s", "i", "s", "t",
     " ", "y", "o", "u", " ", "t", "o", "d", "a", "y", "?" >>

\* src/app.py:235: 'I had trouble retrieving what you said. Could you please repeat that?'
MSG_FETCH_HTTP ==
  << "I", " ", "h", "a", "d", " ", "t", "r", "o", "u", "b", "l", "e", " ",
     "r", "e", "t", "r", "i", "e", "v", "i", "n", "g", " ", "w", "h", "a",
     "t", " ", "y", "o", "u", " ", "s", "a", "i", "d", ".", " ", "C", "o",
     "u", "l", "d", " ", "y", "o", "u", " ", "p", "l", "e", "a", "s", "e",
     " ", "r", "e", "p", "e", "a", "t", " ", "t", "h", "a", "t", "?" >>

\* src/app.py:239: "I couldn't get what you said due to a network hiccup. Please say it again."
MSG_FETCH_NETWORK ==
  << "I", " ", "c", "o", "u", "l", "d", "n", "'", "t", " ", "g", "e", "t",
     " ", "w", "h", "a", "t", " ", "y", "o", "u", " ", "s", "a", "i", "d",
     " ", "d", "u", "e", " ", "t", "o", " ", "a", " ", "n", "e", "t", "w",
     "o", "r", "k", " ", "h", "i", "c", "c", "u", "p", ".", " ", "P", "l",
     "e", "a", "s", "e", " ", "s", "a", "y", " ", "i", "t", " ", "a", "g",
     "a", "i", "n", "." >>

\* src/app.py:243: 'I had a bit of trouble understanding that. Could you say it again?'
MSG_TRANSCRIBE ==
  << "I", " ", "h", "a", "d", " ", "a", " ", "b", "i", "t", " ", "o", "f",
     " ", "t", "r", "o", "u", "b", "l", "e", " ", "u", "n", "d", "e", "r",
     "s", "t", "a", "n", "d", "i", "n", "g", " ", "t", "h", "a", "t", ".",
     " ", "C", "o", "u", "l", "d", " ", "y", "o", "u", " ", "s", "a", "y",
     " ", "i", "t", " ", "a", "g", "a", "i", "n", "?" >>

\* src/app.py:263: 'Is anyone there?'
NO_INPUT_SENTINEL ==
  << "I", "s", " ", "a", "n", "y", "o", "n", "e", " ", "t", "h", "e", "r",
     "e", "?" >>

\* src/app.py:266: "I'm sorry, I'm having a little trouble formulating a response right now. Please try again shortly."
DEFAULT_REPLY ==
  << "I", "'", "m", " ", "s", "o", "r", "r", "y", ",", " ", "I", "'", "m",
     " ", "h", "a", "v", "i", "n", "g", " ", "a", " ", "l", "i", "t", "t",
     "l", "e", " ", "t", "r", "o", "u", "b", "l", "e", " ", "f", "o", "r",
     "m", "u", "l", "a", "t", "i", "n", "g", " ", "a", " ", "r", "e", "s",
     "p", "o", "n", "s", "e", " ", "r", "i", "g", "h", "t", " ", "n", "o",
     "w", ".", " ", "P", "l", "e", "a", "s", "e", " ", "t", "r", "y", " ",
     "a", "g", "a", "i", "n", " ", "s", "h", "o", "r", "t", "l", "y", "." >>

\* a reply of the language model: a booking question: 'What type of appointment?'
REPLY_BOOKING ==
  << "W", "h", "a", "t", " ", "t", "y", "p", "e", " ", "o", "f", " ", "a",
     "p", "p", "o", "i", "n", "t", "m", "e", "n", "t", "?" >>

\* a reply of the language model with the phrase: 'Please hang up and call 000 now.'
REPLY_EMERGENCY ==
  << "P", "l", "e", "a", "s", "e", " ", "h", "a", "n", "g", " ", "u", "p",
     " ", "a", "n", "d", " ", "c", "a", "l", "l", " ", "0", "0", "0", " ",
     "n", "o", "w", "." >>

\* the phrase in capitals: 'HANG UP AND CALL 000'
REPLY_EMERGENCY_UPPER ==
  << "H", "A", "N", "G", " ", "U", "P", " ", "A", "N", "D", " ", "C", "A",
     "L", "L", " ", "0", "0", "0" >>

\* the phrase in mixed case, inside white space: ' Hang Up and Call 000\n'
REPLY_EMERGENCY_PADDED ==
  << " ", "H", "a", "n", "g", " ", "U", "p", " ", "a", "n", "d", " ", "C",
     "a", "l", "l", " ", "0", "0", "0", "\n" >>

\* one character short of the phrase: 'hang up and call 00'
REPLY_NEAR_MISS ==
  << "h", "a", "n", "g", " ", "u", "p", " ", "a", "n", "d", " ", "c", "a",
     "l", "l", " ", "0", "0" >>

\* the words of the phrase, not contiguous: 'hang up, and call 000'
REPLY_SPLIT ==
  << "h", "a", "n", "g", " ", "u", "p", ",", " ", "a", "n", "d", " ", "c",
     "a", "l", "l", " ", "0", "0", "0" >>

\* a reply of the language model that says it did not understand:
\* "I didn't understand that."
REPLY_NOT_UNDERSTOOD ==
  << "I", " ", "d", "i", "d", "n", "'", "t", " ", "u", "n", "d", "e", "r",
     "s", "t", "a", "n", "d", " ", "t", "h", "a", "t", "." >>

\* ---------------------------------------------------------------------------
\* Python string operations
\* ---------------------------------------------------------------------------
WhiteSpace == {" ", "\t", "\n", "\r"}

UpperCase ==
  << "A", "B", "C", "D", "E", "F", "G", "H", "I", "J", "K", "L", "M",
     "N", "O", "P", "Q", "R", "S", "T", "U", "V", "W", "X", "Y", "Z" >>

LowerCase ==
  << "a", "b", "c", "d", "e", "f", "g", "h", "i", "j", "k", "l", "m",
     "n", "o", "p", "q", "r", "s", "t", "u", "v", "w", "x", "y", "z" >>

lower_char(c) ==
  IF \E i \in 1..26 : UpperCase[i] = c
  THEN LowerCase[CHOOSE i \in 1..26 : UpperCase[i] = c]
  ELSE c

\* str.lower()
lower(s) == [i \in 1..Len(s) |-> lower_char(s[i])]

\* the Python expression `sub in s` on strings
contains(sub, s) ==
  \E i \in 0..(Len(s) - Len(sub)) : SubSeq(s, i + 1, i + Len(sub)) = sub

SetMin(S) == CHOOSE x \in S : \A y \in S : x <= y
SetMax(S) == CHOOSE x \in S : \A y \in S : x >= y

\* str.strip(): leading and trailing white space removed
strip(s) ==
  LET keep == {i \in 1..Len(s) : s[i] \notin WhiteSpace}
  IN  IF keep = {} THEN << >> ELSE SubSeq(s, SetMin(keep), SetMax(keep))

\* the slice s[:n]
prefix(s, n) == SubSeq(s, 1, IF Len(s) < n THEN Len(s) ELSE n)

\* all texts over alphabet A of length at most n
RECURSIVE TextsUpTo(_, _)
TextsUpTo(A, n) ==
  IF n = 0 THEN {<< >>}
  ELSE LET shorter == TextsUpTo(A, n - 1)
       IN  shorter \cup {Append(t, c) : t \in shorter, c \in A}

ShortTexts == TextsUpTo({" ", "a"}, MaxShortLen)

\* what Whisper may return as transcript_response.text
Transcripts == ShortTexts

\* what GPT-4o may return as choices[0].message.content
ReplyOutputs ==
  ShortTexts \cup {REPLY_BOOKING, REPLY_EMERGENCY, REPLY_EMERGENCY_UPPER,
                   REPLY_EMERGENCY_PADDED, REPLY_NEAR_MISS, REPLY_SPLIT,
                   REPLY_NOT_UNDERSTOOD}

\* ---------------------------------------------------------------------------
\* TwiML: a VoiceResponse is the sequence of its verbs
\* ---------------------------------------------------------------------------
\* the value None of public_audio_url; a URL is the number of its file name
NoURL == 0

\* a file name that addresses nothing in the audio directory
Absent == -1

\* vr.play(url)
Play(url) == [verb |-> "Play", text |-> << >>, url |-> url]

\* vr.say(text, voice="Polly.Brian", language="en-AU")
Say(text) == [verb |-> "Say", text |-> text, url |-> NoURL]

\* Record(action="/handle_speech_input", ...)
Record == [verb |-> "Record", text |-> << >>, url |-> NoURL]

\* the test of lines 288 and 314 as it would be without .lower()
is_emergency_text_case_sensitive(text) == contains(EMERGENCY_PHRASE, text)

\* the test of lines 288 and 314, negated there
is_emergency_text(text) == contains(EMERGENCY_PHRASE, lower(text))

\* say_fallback: a Say and nothing else
say_fallback(text_to_say) == << Say(text_to_say) >>

\* say_fallback_with_gather: a Say, and a Record unless the text is the
\* emergency text
say_fallback_with_gather(text_to_say) ==
  IF ~ is_emergency_text(text_to_say)
  THEN << Say(text_to_say), Record >>
  ELSE << Say(text_to_say) >>

\* lines 178-186 of initial_voice_handler: the greeting and always a Record
greeting_twiml(url) ==
  << IF url # NoURL THEN Play(url) ELSE Say(greeting_text), Record >>

\* lines 281-292 as they would be if the Record were added in the branch
\* that plays the audio only
reply_twiml_record_after_play(url, fallback_text, reply_text) ==
  IF url # NoURL
  THEN << Play(url) >>
       \o (IF ~ is_emergency_text(reply_text) THEN << Record >> ELSE << >>)
  ELSE << Say(fallback_text) >>

\* lines 281-292 as they would be if the excerpt [:80] logged at line 285
\* were the text said
reply_twiml_says_excerpt(url, fallback_text, reply_text) ==
  << IF url # NoURL THEN Play(url) ELSE Say(prefix(fallback_text, 80)) >>
  \o (IF ~ is_emergency_text(reply_text) THEN << Record >> ELSE << >>)

\* lines 281-292 of handle_speech_input: the reply, and a Record unless the
\* reply is the emergency text
reply_twiml(url, fallback_text, reply_text) ==
  << IF url # NoURL THEN Play(url) ELSE Say(fallback_text) >>
  \o (IF ~ is_emergency_text(reply_text) THEN << Record >> ELSE << >>)

\* CallSid as the request carries it (lines 166, 194): the identifier of the
\* telephony provider, or a text with a line break in it
CallSids == { << "C", "A", "1" >>, << "C", "A", "\n", "1" >> }

LineBreaks == {"\n", "\r"}

\* msg["Subject"] = f"... Call {call_sid}" (line 329): EmailMessage refuses,
\* with ValueError, a header value that splits into more than one line
header_rejects(value) ==
  \E i \in 1..(Len(value) - 1) : value[i] \in LineBreaks

\* RecordingDuration as the request carries it: digits, or anything else
DurationStrs == { << "0" >>, << "7" >>, << "x" >> }

\* int(recording_duration_str), with ValueError turned into 0 (lines 198-202)
parse_duration(s) ==
  IF s = << "0" >> THEN 0
  ELSE IF s = << "7" >> THEN 7
  ELSE 0

\* ---------------------------------------------------------------------------
\* State
\* ---------------------------------------------------------------------------
VARIABLES
  client,               \* the OpenAI client was initialised at start-up
  elevenlabs_key,       \* ELEVENLABS_API_KEY and ELEVENLABS_VOICE_ID are set
  smtp_ok,              \* the SMTP settings and ADMIN_EMAIL are all set
  files,                \* the audio directory: file name -> bytes, or Absent
  pc,                   \* where the handler of the current request stands
  route,                \* "voice" or "speech"
  recording_url,        \* the request carries a RecordingUrl
  recording_duration,   \* the parsed RecordingDuration
  call_sid,             \* the CallSid of the request
  fetch_attempts,       \* calls of requests.get in this turn
  fetch_status,         \* outcome of the recording fetch
  audio_len,            \* bytes of the fetched recording
  transcribe_calls,     \* calls of client.audio.transcriptions.create
  transcribe_status,    \* how the Whisper call ended
  speech_result,        \* the transcript
  generate_calls,       \* calls of client.chat.completions.create
  generate_status,      \* how the GPT-4o call ended
  user_content,         \* the user message sent to GPT-4o
  gpt_reply_text,       \* the reply text
  synth_calls,          \* calls of requests.post to ElevenLabs
  text_to_speak,        \* argument of text_to_elevenlabs_audio
  filename,             \* file name generated by this synthesis
  tts_status,           \* how text_to_elevenlabs_audio ended
  chunks_read,          \* chunks iterated so far
  total_bytes_written,  \* local of text_to_elevenlabs_audio
  public_audio_url,     \* first value returned by text_to_elevenlabs_audio
  response,             \* the TwiML returned, << >> while none is
  notified,             \* the calls of notify_error in this turn
  peer                  \* another request, served by another thread of
                        \* app.run, inside text_to_elevenlabs_audio

config == << client, elevenlabs_key, smtp_ok >>

fetch_vars == << fetch_attempts, fetch_status, audio_len >>

stt_vars == << transcribe_calls, transcribe_status, speech_result >>

gpt_vars == << generate_calls, generate_status, user_content, gpt_reply_text >>

tts_vars ==
  << synth_calls, text_to_speak, filename, tts_status, chunks_read,
     total_bytes_written, public_audio_url >>

request_vars == << route, recording_url, recording_duration, call_sid >>

vars ==
  << config, files, pc, request_vars, fetch_vars, stt_vars, gpt_vars,
     tts_vars, response, notified, peer >>

\* the locals of text_to_elevenlabs_audio in the other thread, before its
\* call
peer_idle ==
  [pc |-> "idle", filename |-> Absent, chunks_read |-> 0,
   total_bytes_written |-> 0, public_audio_url |-> NoURL]

\* module start-up, lines 27-80: the settings are read once
Init ==
  /\ client \in BOOLEAN
  /\ elevenlabs_key \in BOOLEAN
  /\ smtp_ok \in BOOLEAN
  /\ files = << >>
  /\ pc = "idle"
  /\ route = "none"
  /\ recording_url = FALSE
  /\ recording_duration = 0
  /\ call_sid = << >>
  /\ fetch_attempts = 0
  /\ fetch_status = "none"
  /\ audio_len = 0
  /\ transcribe_calls = 0
  /\ transcribe_status = "none"
  /\ speech_result = << >>
  /\ generate_calls = 0
  /\ generate_status = "none"
  /\ user_content = << >>
  /\ gpt_reply_text = << >>
  /\ synth_calls = 0
  /\ text_to_speak = << >>
  /\ filename = Absent
  /\ tts_status = "none"
  /\ chunks_read = 0
  /\ total_bytes_written = 0
  /\ public_audio_url = NoURL
  /\ response = << >>
  /\ notified = << >>
  /\ peer = peer_idle

\* ---------------------------------------------------------------------------
\* notify_error (lines 324-338)
\* ---------------------------------------------------------------------------
\* lines 328-332 raise: the mail settings are there and the subject, which
\* holds the CallSid, is refused as a header
message_refused == smtp_ok /\ header_rejects(call_sid)

\* One call that returns: without mail settings nothing is sent; with them
\* the message is built, and the mail is sent or the transport fails, and the
\* failure is logged, not raised.
notify_error(kind, user_input_context) ==
  /\ ~ message_refused
  /\ \E sent \in (IF smtp_ok THEN BOOLEAN ELSE {FALSE}) :
       notified' = Append(notified,
                          [kind |-> kind, context |-> user_input_context,
                           sent |-> sent, returned |-> TRUE])

\* return Response(str(vr), mimetype="text/xml")
Return(vr) ==
  /\ response' = vr
  /\ pc' = "done"

\* ---------------------------------------------------------------------------
\* A request arrives
\* ---------------------------------------------------------------------------
\* POST /voice (line 164)
receive_voice ==
  /\ pc = "idle"
  /\ route' = "voice"
  /\ call_sid' \in CallSids
  /\ pc' = "entry"
  /\ UNCHANGED << peer, config, files, recording_url, recording_duration,
                  fetch_vars, stt_vars, gpt_vars, tts_vars, response,
                  notified >>

\* POST /handle_speech_input (lines 192-204)
receive_speech ==
  /\ pc = "idle"
  /\ route' = "speech"
  /\ call_sid' \in CallSids
  /\ recording_url' \in BOOLEAN
  /\ \E recording_duration_str \in DurationStrs :
       recording_duration' = parse_duration(recording_duration_str)
  /\ pc' = "entry"
  /\ UNCHANGED << peer, config, files, fetch_vars, stt_vars, gpt_vars,
                  tts_vars, response, notified >>

\* ---------------------------------------------------------------------------
\* initial_voice_handler (lines 165-190)
\* ---------------------------------------------------------------------------
\* lines 169-173
initial_voice_handler_no_client ==
  /\ pc = "entry" /\ route = "voice"
  /\ ~ client
  /\ notify_error("no_client", << >>)
  /\ Return(say_fallback(MSG_VOICE_NO_CLIENT))
  /\ UNCHANGED << peer, config, files, request_vars, fetch_vars, stt_vars,
                  gpt_vars, tts_vars >>

\* lines 175-176: the greeting goes to text_to_elevenlabs_audio
initial_voice_handler_greet ==
  /\ pc = "entry" /\ route = "voice"
  /\ client
  /\ text_to_speak' = greeting_text
  /\ pc' = "tts"
  /\ UNCHANGED << peer, config, files, request_vars, fetch_vars, stt_vars,
                  gpt_vars, synth_calls, filename, tts_status, chunks_read,
                  total_bytes_written, public_audio_url, response, notified >>

\* lines 178-190
initial_voice_handler_respond ==
  /\ pc = "respond" /\ route = "voice"
  /\ Return(greeting_twiml(public_audio_url))
  /\ UNCHANGED << peer, config, files, request_vars, fetch_vars, stt_vars,
                  gpt_vars, tts_vars, notified >>

\* ---------------------------------------------------------------------------
\* handle_speech_input (lines 193-296)
\* ---------------------------------------------------------------------------
\* lines 206-210
handle_speech_input_no_client ==
  /\ pc = "entry" /\ route = "speech"
  /\ ~ client
  /\ notify_error("no_client", << >>)
  /\ Return(say_fallback(MSG_SPEECH_NO_CLIENT))
  /\ UNCHANGED << peer, config, files, request_vars, fetch_vars, stt_vars,
                  gpt_vars, tts_vars >>

\* lines 212-213 and 244-249: with a RecordingUrl the recording is fetched,
\* without one the transcript is empty whatever the duration
handle_speech_input_dispatch ==
  /\ pc = "entry" /\ route = "speech"
  /\ client
  /\ IF recording_url
     THEN /\ pc' = "fetch"
          /\ UNCHANGED speech_result
     ELSE /\ speech_result' = << >>
          /\ pc' = "generate"
  /\ UNCHANGED << peer, config, files, request_vars, fetch_vars,
                  transcribe_calls, transcribe_status, gpt_vars, tts_vars,
                  response, notified >>

\* lines 219-223: requests.get answers with a success status; the body, of
\* any length, is wrapped for Whisper
fetch_ok ==
  /\ pc = "fetch"
  /\ fetch_attempts' = fetch_attempts + 1
  /\ fetch_status' = "ok"
  /\ audio_len' \in 0..MaxAudioLen
  /\ pc' = "transcribe"
  /\ UNCHANGED << peer, config, files, request_vars, stt_vars, gpt_vars,
                  tts_vars, response, notified >>

\* the statuses raise_for_status turns into HTTPError, one per failure class
HTTPErrorStatuses == {"401", "404", "500"}

\* lines 232-235 as they would be inside a retry loop that fetches again
\* after any HTTP error, up to 3 times
fetch_http_error_retried ==
  /\ pc = "fetch"
  /\ fetch_attempts' = fetch_attempts + 1
  /\ fetch_status' \in HTTPErrorStatuses
  /\ IF fetch_attempts + 1 < 3
     THEN UNCHANGED << pc, response, notified >>
     ELSE /\ notify_error("fetch_http", << >>)
          /\ Return(say_fallback_with_gather(MSG_FETCH_HTTP))
  /\ UNCHANGED << peer, config, files, request_vars, audio_len, stt_vars,
                  gpt_vars, tts_vars >>

\* lines 220 and 232-235: HTTPError of the recording fetch
fetch_http_error ==
  /\ pc = "fetch"
  /\ fetch_attempts' = fetch_attempts + 1
  /\ fetch_status' \in HTTPErrorStatuses
  /\ notify_error("fetch_http", << >>)
  /\ Return(say_fallback_with_gather(MSG_FETCH_HTTP))
  /\ UNCHANGED << peer, config, files, request_vars, audio_len, stt_vars,
                  gpt_vars, tts_vars >>

\* lines 219 and 236-239: connection error or timeout of the recording fetch
fetch_network_error ==
  /\ pc = "fetch"
  /\ fetch_attempts' = fetch_attempts + 1
  /\ fetch_status' = "network"
  /\ notify_error("fetch_network", << >>)
  /\ Return(say_fallback_with_gather(MSG_FETCH_NETWORK))
  /\ UNCHANGED << peer, config, files, request_vars, audio_len, stt_vars,
                  gpt_vars, tts_vars >>

\* lines 225-231: Whisper returns a transcript
transcribe_ok ==
  /\ pc = "transcribe"
  /\ transcribe_calls' = transcribe_calls + 1
  /\ transcribe_status' = "ok"
  /\ \E text \in Transcripts : speech_result' = strip(text)
  /\ pc' = "generate"
  /\ UNCHANGED << peer, config, files, request_vars, fetch_vars, gpt_vars,
                  tts_vars, response, notified >>

\* lines 226-229 and 240-243: Whisper fails
transcribe_error ==
  /\ pc = "transcribe"
  /\ transcribe_calls' = transcribe_calls + 1
  /\ transcribe_status' = "error"
  /\ notify_error("transcribe", << >>)
  /\ Return(say_fallback_with_gather(MSG_TRANSCRIBE))
  /\ UNCHANGED << peer, config, files, request_vars, fetch_vars, speech_result,
                  gpt_vars, tts_vars >>

\* line 263: speech_result or "Is anyone there?"
user_message(transcript) ==
  IF transcript = << >> THEN NO_INPUT_SENTINEL ELSE transcript

\* lines 261-273 and 279: GPT-4o answers, the stripped content is the reply
generate_ok ==
  /\ pc = "generate"
  /\ generate_calls' = generate_calls + 1
  /\ generate_status' = "ok"
  /\ user_content' = user_message(speech_result)
  /\ \E content \in ReplyOutputs :
       /\ gpt_reply_text' = strip(content)
       /\ text_to_speak' = strip(content)
  /\ pc' = "tts"
  /\ UNCHANGED << peer, config, files, request_vars, fetch_vars, stt_vars,
                  synth_calls, filename, tts_status, chunks_read,
                  total_bytes_written, public_audio_url, response, notified >>

\* lines 266 and 274-279: the call raises (or the content is None and
\* .strip() raises); the reply keeps its default
generate_error ==
  /\ pc = "generate"
  /\ generate_calls' = generate_calls + 1
  /\ generate_status' = "error"
  /\ user_content' = user_message(speech_result)
  /\ notify_error("gpt", speech_result)
  /\ gpt_reply_text' = DEFAULT_REPLY
  /\ text_to_speak' = DEFAULT_REPLY
  /\ pc' = "tts"
  /\ UNCHANGED << peer, config, files, request_vars, fetch_vars, stt_vars,
                  synth_calls, filename, tts_status, chunks_read,
                  total_bytes_written, public_audio_url, response >>

\* lines 281-296
handle_speech_input_respond ==
  /\ pc = "respond" /\ route = "speech"
  /\ Return(reply_twiml(public_audio_url, text_to_speak, gpt_reply_text))
  /\ UNCHANGED << peer, config, files, request_vars, fetch_vars, stt_vars,
                  gpt_vars, tts_vars, notified >>

\* ---------------------------------------------------------------------------
\* text_to_elevenlabs_audio (lines 104-162)
\* ---------------------------------------------------------------------------
\* return url, text_to_speak: back in the handler that called
tts_return(url, status) ==
  /\ public_audio_url' = url
  /\ tts_status' = status
  /\ pc' = "respond"

\* line 109 as it would be if it could give a name again: the name of the
\* newest file there is
uuid4_reused == IF files = << >> THEN Len(files) + 1 ELSE Len(files)

\* line 109: uuid.uuid4().hex, a name no earlier call was given
uuid4 == Len(files) + 1

\* lines 105-107
tts_no_key ==
  /\ pc = "tts"
  /\ ~ elevenlabs_key
  /\ tts_return(NoURL, "no_key")
  /\ UNCHANGED << peer, config, files, request_vars, fetch_vars, stt_vars,
                  gpt_vars, synth_calls, text_to_speak, filename, chunks_read,
                  total_bytes_written, response, notified >>

\* lines 109-127: the name is generated, the request is sent
tts_post ==
  /\ pc = "tts"
  /\ elevenlabs_key
  /\ filename' = uuid4
  /\ files' = Append(files, Absent)
  /\ synth_calls' = synth_calls + 1
  /\ pc' = "tts_posted"
  /\ UNCHANGED << peer, config, request_vars, fetch_vars, stt_vars, gpt_vars,
                  text_to_speak, tts_status, chunks_read, total_bytes_written,
                  public_audio_url, response, notified >>

\* line 127 passes: a success status, the body is still to be streamed
tts_post_ok ==
  /\ pc = "tts_posted"
  /\ pc' = "tts_open"
  /\ UNCHANGED << peer, config, files, request_vars, fetch_vars, stt_vars,
                  gpt_vars, tts_vars, response, notified >>

\* lines 127 and 151-154: an error status, and the body of the error
\* response is read for the log and the notification
tts_post_http_error ==
  /\ pc = "tts_posted"
  /\ notify_error("tts_http", prefix(text_to_speak, 50))
  /\ tts_return(NoURL, "http_error")
  /\ UNCHANGED << peer, config, files, request_vars, fetch_vars, stt_vars,
                  gpt_vars, synth_calls, text_to_speak, filename, chunks_read,
                  total_bytes_written, response >>

\* lines 125 and 152: the response is streamed (stream=True), so
\* http_err.response.text reads the body from the network inside the except
\* clause; when that read fails the exception leaves the function, and the
\* handler, whose call (lines 176, 279) is outside any try
tts_post_http_error_body_unreadable ==
  /\ pc = "tts_posted"
  /\ tts_status' = "raised"
  /\ pc' = "fault"
  /\ UNCHANGED << peer, config, files, request_vars, fetch_vars, stt_vars,
                  gpt_vars, synth_calls, text_to_speak, filename, chunks_read,
                  total_bytes_written, public_audio_url, response, notified >>

\* lines 115-126 and 155-158: connection error or timeout of the request
tts_post_network_error ==
  /\ pc = "tts_posted"
  /\ notify_error("tts_network", prefix(text_to_speak, 50))
  /\ tts_return(NoURL, "network_error")
  /\ UNCHANGED << peer, config, files, request_vars, fetch_vars, stt_vars,
                  gpt_vars, synth_calls, text_to_speak, filename, chunks_read,
                  total_bytes_written, response >>

\* lines 129-130: open(audio_file_path, "wb") creates the file, empty
tts_open_ok ==
  /\ pc = "tts_open"
  /\ files' = [files EXCEPT ![filename] = 0]
  /\ pc' = "tts_write"
  /\ UNCHANGED << peer, config, request_vars, fetch_vars, stt_vars, gpt_vars,
                  tts_vars, response, notified >>

\* lines 130 and 159-162: open raises OSError
tts_open_error ==
  /\ pc = "tts_open"
  /\ notify_error("tts_other", prefix(text_to_speak, 50))
  /\ tts_return(NoURL, "open_error")
  /\ UNCHANGED << peer, config, files, request_vars, fetch_vars, stt_vars,
                  gpt_vars, synth_calls, text_to_speak, filename, chunks_read,
                  total_bytes_written, response >>

\* lines 131-134: one chunk of the stream; an empty chunk is skipped
tts_write_chunk ==
  /\ pc = "tts_write"
  /\ chunks_read < MaxChunks
  /\ \E chunk_len \in 0..MaxChunkLen :
       /\ files' = [files EXCEPT ![filename] = @ + chunk_len]
       /\ total_bytes_written' = total_bytes_written + chunk_len
  /\ chunks_read' = chunks_read + 1
  /\ UNCHANGED << peer, config, pc, request_vars, fetch_vars, stt_vars,
                  gpt_vars, synth_calls, text_to_speak, filename, tts_status,
                  public_audio_url, response, notified >>

\* lines 159-162 as they would be if the except clause returned the URL of
\* the file it could not finish
tts_write_error_returns_url ==
  /\ pc = "tts_write"
  /\ chunks_read < MaxChunks
  /\ chunks_read' = chunks_read + 1
  /\ notify_error("tts_other", prefix(text_to_speak, 50))
  /\ tts_return(filename, "write_error")
  /\ UNCHANGED << peer, config, files, request_vars, fetch_vars, stt_vars,
                  gpt_vars, synth_calls, text_to_speak, filename,
                  total_bytes_written, response >>

\* lines 133 and 159-162: f.write of a chunk raises OSError; what was
\* written before stays in the file
tts_write_error ==
  /\ pc = "tts_write"
  /\ chunks_read < MaxChunks
  /\ chunks_read' = chunks_read + 1
  /\ notify_error("tts_other", prefix(text_to_speak, 50))
  /\ tts_return(NoURL, "write_error")
  /\ UNCHANGED << peer, config, files, request_vars, fetch_vars, stt_vars,
                  gpt_vars, synth_calls, text_to_speak, filename,
                  total_bytes_written, response >>

\* lines 131 and 155-158: the stream breaks while it is iterated
tts_stream_error ==
  /\ pc = "tts_write"
  /\ notify_error("tts_network", prefix(text_to_speak, 50))
  /\ tts_return(NoURL, "stream_error")
  /\ UNCHANGED << peer, config, files, request_vars, fetch_vars, stt_vars,
                  gpt_vars, synth_calls, text_to_speak, filename, chunks_read,
                  total_bytes_written, response >>

\* lines 138-145: the stream ended and nothing was written; the empty file
\* is removed unless os.remove raises OSError
tts_finish_empty ==
  /\ pc = "tts_write"
  /\ total_bytes_written = 0
  /\ \E removed \in BOOLEAN :
       files' = IF removed THEN [files EXCEPT ![filename] = Absent] ELSE files
  /\ tts_return(NoURL, "zero_bytes")
  /\ UNCHANGED << peer, config, request_vars, fetch_vars, stt_vars, gpt_vars,
                  synth_calls, text_to_speak, filename, chunks_read,
                  total_bytes_written, response, notified >>

\* lines 147-149 as they would be without the test of line 138: the URL is
\* returned whatever was written
tts_finish_audio_unchecked ==
  /\ pc = "tts_write"
  /\ tts_return(filename, "ok")
  /\ UNCHANGED << peer, config, files, request_vars, fetch_vars, stt_vars,
                  gpt_vars, synth_calls, text_to_speak, filename, chunks_read,
                  total_bytes_written, response, notified >>

\* lines 138 and 147-149: the stream ended with audio written
tts_finish_audio ==
  /\ pc = "tts_write"
  /\ total_bytes_written # 0
  /\ tts_return(filename, "ok")
  /\ UNCHANGED << peer, config, files, request_vars, fetch_vars, stt_vars,
                  gpt_vars, synth_calls, text_to_speak, filename, chunks_read,
                  total_bytes_written, response, notified >>

\* ---------------------------------------------------------------------------
\* notify_error does not return (lines 324-338)
\* ---------------------------------------------------------------------------
\* what each call of notify_error is about; lines 171 and 208 (no_client),
\* 234, 238, 242, 276, 154, 158, 162
NotifyKinds ==
  { "no_client", "fetch_http", "fetch_network", "transcribe", "gpt",
    "tts_http", "tts_network", "tts_other" }

\* where the handler is when it makes the call
call_site(kind) ==
  CASE kind = "no_client" -> {"entry"}
    [] kind \in {"fetch_http", "fetch_network"} -> {"fetch"}
    [] kind = "transcribe" -> {"transcribe"}
    [] kind = "gpt" -> {"generate"}
    [] kind = "tts_http" -> {"tts_posted"}
    [] kind = "tts_network" -> {"tts_posted", "tts_write"}
    [] kind = "tts_other" -> {"tts_open", "tts_write"}

\* the calls made inside text_to_elevenlabs_audio
TTSKinds == {"tts_http", "tts_network", "tts_other"}

\* A call of notify_error that does not return to the handler: the external
\* call of the stage has failed as in the actions above, notify_error is
\* entered, and the handler goes to `outcome` instead of going on.
notify_error_leaves(outcome) ==
  \E kind \in NotifyKinds :
    /\ pc \in call_site(kind)
    /\ kind = "no_client" => ~ client
    /\ fetch_attempts' =
         IF pc = "fetch" THEN fetch_attempts + 1 ELSE fetch_attempts
    /\ fetch_status' \in
         IF kind = "fetch_http" THEN HTTPErrorStatuses
         ELSE IF kind = "fetch_network" THEN {"network"}
         ELSE {fetch_status}
    /\ transcribe_calls' =
         IF kind = "transcribe" THEN transcribe_calls + 1
         ELSE transcribe_calls
    /\ transcribe_status' =
         IF kind = "transcribe" THEN "error" ELSE transcribe_status
    /\ generate_calls' =
         IF kind = "gpt" THEN generate_calls + 1 ELSE generate_calls
    /\ generate_status' =
         IF kind = "gpt" THEN "error" ELSE generate_status
    /\ user_content' =
         IF kind = "gpt" THEN user_message(speech_result) ELSE user_content
    /\ gpt_reply_text' =
         IF kind = "gpt" THEN DEFAULT_REPLY ELSE gpt_reply_text
    /\ IF kind = "tts_other" /\ pc = "tts_write"
       THEN /\ chunks_read < MaxChunks
            /\ chunks_read' = chunks_read + 1
       ELSE UNCHANGED chunks_read
    /\ tts_status' =
         IF kind \in TTSKinds /\ outcome = "fault" THEN "raised"
         ELSE tts_status
    /\ notified' =
         Append(notified,
                [kind |-> kind,
                 context |-> IF kind = "gpt" THEN speech_result
                             ELSE IF kind \in TTSKinds
                             THEN prefix(text_to_speak, 50)
                             ELSE << >>,
                 sent |-> FALSE, returned |-> FALSE])
    /\ pc' = outcome
    /\ UNCHANGED << peer, config, files, request_vars, audio_len,
                    speech_result, synth_calls, text_to_speak, filename,
                    total_bytes_written, public_audio_url, response >>

\* lines 328-332 are outside the try of line 333: the ValueError of the
\* refused Subject leaves notify_error, the except clause it was called from
\* and the route handler
notify_error_raises ==
  /\ message_refused
  /\ notify_error_leaves("fault")

\* line 334: smtplib.SMTP(SMTP_SERVER, SMTP_PORT) is given no timeout, so the
\* socket has none; a mail server that accepts the connection and never
\* answers keeps the handler inside notify_error
notify_error_blocks ==
  /\ smtp_ok
  /\ ~ message_refused
  /\ notify_error_leaves("blocked")

\* ---------------------------------------------------------------------------
\* text_to_elevenlabs_audio in another thread (lines 104-162)
\* ---------------------------------------------------------------------------
\* what a step of the other thread leaves alone: everything of this request
this_request ==
  << config, pc, request_vars, fetch_vars, stt_vars, gpt_vars, tts_vars,
     response, notified >>

\* lines 109-127: the other thread generates its name and sends its request
peer_tts_post ==
  /\ peer.pc = "idle"
  /\ Len(files) <= MaxFiles
  /\ peer' = [peer EXCEPT !.pc = "tts_posted", !.filename = uuid4]
  /\ files' = Append(files, Absent)
  /\ UNCHANGED this_request

\* lines 127-130: a success status, and open(audio_file_path, "wb")
peer_tts_open_ok ==
  /\ peer.pc = "tts_posted"
  /\ files' = [files EXCEPT ![peer.filename] = 0]
  /\ peer' = [peer EXCEPT !.pc = "tts_write"]
  /\ UNCHANGED this_request

\* lines 131-134: one chunk of the stream
peer_tts_write_chunk ==
  /\ peer.pc = "tts_write"
  /\ peer.chunks_read < MaxChunks
  /\ \E chunk_len \in 0..MaxChunkLen :
       /\ files' = [files EXCEPT ![peer.filename] = @ + chunk_len]
       /\ peer' = [peer EXCEPT !.chunks_read = @ + 1,
                               !.total_bytes_written = @ + chunk_len]
  /\ UNCHANGED this_request

\* lines 151-162: any of the failures; None is returned and no file is
\* touched
peer_tts_error ==
  /\ peer.pc \in {"tts_posted", "tts_write"}
  /\ peer' = [peer EXCEPT !.pc = "returned"]
  /\ UNCHANGED << files, this_request >>

\* lines 138-145: nothing was written, the empty file is removed unless
\* os.remove raises OSError
peer_tts_finish_empty ==
  /\ peer.pc = "tts_write"
  /\ peer.total_bytes_written = 0
  /\ \E removed \in BOOLEAN :
       files' = IF removed THEN [files EXCEPT ![peer.filename] = Absent]
                ELSE files
  /\ peer' = [peer EXCEPT !.pc = "returned"]
  /\ UNCHANGED this_request

\* lines 138 and 147-149: the URL of the file is returned
peer_tts_finish_audio ==
  /\ peer.pc = "tts_write"
  /\ peer.total_bytes_written # 0
  /\ peer' = [peer EXCEPT !.pc = "returned",
                          !.public_audio_url = peer.filename]
  /\ UNCHANGED << files, this_request >>

\* the other thread has answered its request and takes the next one
peer_next_request ==
  /\ peer.pc = "returned"
  /\ peer' = peer_idle
  /\ UNCHANGED << files, this_request >>

\* ---------------------------------------------------------------------------
\* The next request
\* ---------------------------------------------------------------------------
\* The handler has returned (or Flask has answered 500 for it); nothing of
\* the request outlives it but the audio directory.
next_request ==
  /\ pc \in {"done", "fault"}
  /\ Len(files) < MaxFiles
  /\ pc' = "idle"
  /\ route' = "none"
  /\ recording_url' = FALSE
  /\ recording_duration' = 0
  /\ call_sid' = << >>
  /\ fetch_attempts' = 0
  /\ fetch_status' = "none"
  /\ audio_len' = 0
  /\ transcribe_calls' = 0
  /\ transcribe_status' = "none"
  /\ speech_result' = << >>
  /\ generate_calls' = 0
  /\ generate_status' = "none"
  /\ user_content' = << >>
  /\ gpt_reply_text' = << >>
  /\ synth_calls' = 0
  /\ text_to_speak' = << >>
  /\ filename' = Absent
  /\ tts_status' = "none"
  /\ chunks_read' = 0
  /\ total_bytes_written' = 0
  /\ public_audio_url' = NoURL
  /\ response' = << >>
  /\ notified' = << >>
  /\ UNCHANGED << peer, config, files >>

Next ==
  \/ receive_voice
  \/ receive_speech
  \/ initial_voice_handler_no_client
  \/ initial_voice_handler_greet
  \/ initial_voice_handler_respond
  \/ handle_speech_input_no_client
  \/ handle_speech_input_dispatch
  \/ fetch_ok
  \/ fetch_http_error
  \/ fetch_network_error
  \/ transcribe_ok
  \/ transcribe_error
  \/ generate_ok
  \/ generate_error
  \/ handle_speech_input_respond
  \/ tts_no_key
  \/ tts_post
  \/ tts_post_ok
  \/ tts_post_http_error
  \/ tts_post_http_error_body_unreadable
  \/ tts_post_network_error
  \/ tts_open_ok
  \/ tts_open_error
  \/ tts_write_chunk
  \/ tts_write_error
  \/ tts_stream_error
  \/ tts_finish_empty
  \/ tts_finish_audio
  \/ notify_error_raises
  \/ notify_error_blocks
  \/ next_request

Spec == Init /\ [][Next]_vars

\* Two requests served at the same time by two threads of app.run
\* (line 347): this request is a POST /voice that goes through
\* text_to_elevenlabs_audio, with the OpenAI client and the ElevenLabs key
\* configured and no mail settings, while the other thread is inside
\* text_to_elevenlabs_audio for one request of its own after the other.
InitConcurrent ==
  /\ Init
  /\ client /\ elevenlabs_key /\ ~ smtp_ok

NextConcurrent ==
  \/ receive_voice
  \/ initial_voice_handler_greet
  \/ initial_voice_handler_respond
  \/ tts_post
  \/ tts_post_ok
  \/ tts_post_http_error
  \/ tts_post_network_error
  \/ tts_open_ok
  \/ tts_open_error
  \/ tts_write_chunk
  \/ tts_write_error
  \/ tts_stream_error
  \/ tts_finish_empty
  \/ tts_finish_audio
  \/ peer_tts_post
  \/ peer_tts_open_ok
  \/ peer_tts_write_chunk
  \/ peer_tts_error
  \/ peer_tts_finish_empty
  \/ peer_tts_finish_audio
  \/ peer_next_request

SpecConcurrent == InitConcurrent /\ [][NextConcurrent]_vars

\* The handler runs on: a step of the program that can be taken is taken.
\* Nothing is asked of a dependency that does not answer: a handler waiting
\* in a call without a timeout has no step to take.
LiveSpec == Spec /\ WF_vars(Next)

\* ---------------------------------------------------------------------------
\* The telephony instruction of a response, in the specification's terms
\* ---------------------------------------------------------------------------
DeliveryVerbs == {"Play", "Say"}

\* the verbs of a response that speak to the caller
Deliveries(vr) == {i \in 1..Len(vr) : vr[i].verb \in DeliveryVerbs}

\* record-next-turn when a Record verb follows, terminate otherwise
Continuation(vr) ==
  IF \E i \in 1..Len(vr) : vr[i].verb = "Record"
  THEN "record-next-turn"
  ELSE "terminate"

\* the payload of a delivery verb is not empty
NonEmptyPayload(v) ==
  IF v.verb = "Play" THEN v.url # NoURL ELSE v.text # << >>

Letters == {UpperCase[j] : j \in 1..26} \cup {LowerCase[j] : j \in 1..26}

\* a letter in its other case
OtherCase ==
  [c \in Letters |->
     LET j == CHOOSE k \in 1..26 : c \in {UpperCase[k], LowerCase[k]}
     IN  IF c = UpperCase[j] THEN LowerCase[j] ELSE UpperCase[j]]

\* c and d are the same character up to the case of a letter
SameLetter(c, d) ==
  \/ c = d
  \/ c \in Letters /\ OtherCase[c] = d

\* isEmergency: the text holds the emergency phrase, in any case of letters
IsEmergency(text) ==
  \E i \in 0..(Len(text) - Len(EMERGENCY_PHRASE)) :
    \A k \in 1..Len(EMERGENCY_PHRASE) :
      SameLetter(text[i + k], EMERGENCY_PHRASE[k])

\* the continuation mode the specification gives a reply text
ContinuationOf(text) ==
  IF IsEmergency(text) THEN "terminate" ELSE "record-next-turn"

\* the text the caller is to hear in a finished turn: the reply of the
\* pipeline when it got as far as synthesis, the text said otherwise
ReplyText ==
  IF tts_status # "none" THEN text_to_speak ELSE response[1].text

FetchFailed == fetch_status \in HTTPErrorStatuses \cup {"network"}

\* ---------------------------------------------------------------------------
\* Claims
\* ---------------------------------------------------------------------------
\* C1: every instruction handle_speech_input returns has exactly one delivery
\* (a play or a say) and its payload is not empty, and the reply text that
\* reaches the construction of the instruction is never the empty string.
C1_NonEmptyInstruction ==
  (route = "speech" /\ pc = "done") =>
     /\ Cardinality(Deliveries(response)) = 1
     /\ \A i \in Deliveries(response) : NonEmptyPayload(response[i])
     /\ ReplyText # << >>

\* C2: whenever the reply text of a turn is an emergency text, the returned
\* instruction terminates (no Record), with audio played or text said, on the
\* pipeline's path and on the path of say_fallback_with_gather.
C2_EmergencyTerminates ==
  /\ (pc = "done" /\ IsEmergency(ReplyText)) =>
        Continuation(response) = "terminate"
  /\ pc = "idle" =>
        \A content \in ReplyOutputs :
          IsEmergency(content) =>
             Continuation(say_fallback_with_gather(content)) = "terminate"

\* an emergency reply in mixed case, played as synthesized audio
C2_Witness ==
  /\ pc = "done"
  /\ IsEmergency(gpt_reply_text)
  /\ gpt_reply_text # lower(gpt_reply_text)
  /\ response = << Play(filename) >>

\* C3: an instruction that terminates (no Record) is returned only for an
\* emergency reply; in every other outcome of /voice and
\* /handle_speech_input the instruction is record-next-turn.
C3_TerminateOnlyOnEmergency ==
  pc = "done" =>
     /\ Deliveries(response) # {}
     /\ Continuation(response) = "terminate" => IsEmergency(ReplyText)

\* C4: no failure of an external call leaves a handler as an unhandled
\* fault; every turn ends with an instruction.
C4_NoUnhandledFault ==
  /\ pc # "fault"
  /\ pc = "done" => Deliveries(response) # {}

\* C5: a success status with a zero-byte body makes
\* text_to_elevenlabs_audio return no URL, and the instruction says the text.
C5_ZeroBytesIsNoAudio ==
  (/\ pc \in {"respond", "done"}
   /\ tts_status \in {"ok", "zero_bytes"}
   /\ total_bytes_written = 0) =>
     /\ public_audio_url = NoURL
     /\ pc = "done" => response[1].verb = "Say"

\* the stream of a success response ended after empty chunks only
C5_Witness ==
  /\ pc = "done"
  /\ tts_status = "zero_bytes"
  /\ chunks_read > 0
  /\ response[1] = Say(text_to_speak)

\* C6: whenever synthesis returns no audio, the instruction says exactly the
\* reply text that was passed to synthesis, and the continuation mode is the
\* one the reply text has when synthesis succeeds.
C6_TextFallbackKeepsReply ==
  (pc = "done" /\ tts_status # "none") =>
     /\ public_audio_url = NoURL => response[1] = Say(text_to_speak)
     /\ route = "speech" =>
          /\ text_to_speak = gpt_reply_text
          /\ Continuation(response) = ContinuationOf(gpt_reply_text)
     /\ route = "voice" => Continuation(response) = "record-next-turn"

\* the audio file could not be written and the booking question is said
C6_Witness ==
  /\ pc = "done"
  /\ tts_status = "write_error"
  /\ gpt_reply_text = REPLY_BOOKING
  /\ response = << Say(REPLY_BOOKING), Record >>

\* C7: the recording fetch is attempted at most 3 times in a turn when the
\* failure is not-yet-available (404) and exactly once when it is an
\* authentication failure (401).
C7_FetchAttemptsBounded ==
  /\ fetch_status = "404" => fetch_attempts <= 3
  /\ fetch_status = "401" => fetch_attempts = 1

\* a turn that ended on an authentication failure of the fetch
C7_Witness ==
  /\ pc = "done"
  /\ fetch_status = "401"
  /\ fetch_attempts = 1

\* C8: the turn gives up on a not-yet-available or network failure of the
\* fetch only after 3 attempts have all failed.
C8_GivesUpAfterThreeAttempts ==
  (pc = "done" /\ fetch_status \in {"404", "network"}) => fetch_attempts = 3

\* C9: the Transcriber is never invoked with zero-length audio; an empty
\* body of the fetch is a fetch failure.
C9_NoEmptyAudioTranscribed ==
  transcribe_calls > 0 => audio_len > 0

\* C10: on a terminal fetch failure the turn skips transcription,
\* generation and synthesis, says the one fixed hearing-trouble message (the
\* message of line 235), notifies the operator once and records the next turn.
C10_OneFixedMessage ==
  (pc = "done" /\ FetchFailed) =>
     /\ transcribe_calls = 0 /\ generate_calls = 0 /\ synth_calls = 0
     /\ response = << Say(MSG_FETCH_HTTP), Record >>
     /\ Len(notified) = 1

\* the fixed message of each class of fetch failure
FetchFailureMessage(status) ==
  IF status = "network" THEN MSG_FETCH_NETWORK ELSE MSG_FETCH_HTTP

\* the reply generator was called and failed: the reply is the default of
\* line 266, which no answer of the generator is
GeneratorFailed == generate_calls > 0 /\ gpt_reply_text = DEFAULT_REPLY

\* C11: the reply generator is called at most once per turn; when the call
\* fails the reply text is the fixed apology text, notify_error is called,
\* the turn goes on through synthesis to its response, and the instruction
\* it returns is record-next-turn.
C11_GeneratorFailureHandled ==
  /\ generate_calls <= 1
  /\ GeneratorFailed =>
        /\ \E i \in 1..Len(notified) :
              notified[i].kind = "gpt" /\ notified[i].context = speech_result
        /\ pc \notin {"fault", "blocked"}
        /\ pc = "done" =>
              /\ tts_status # "none"
              /\ text_to_speak = DEFAULT_REPLY
              /\ response[1] \in {Play(filename), Say(DEFAULT_REPLY)}
              /\ Continuation(response) = "record-next-turn"

\* a turn of /handle_speech_input without recording and with duration 0 that
\* has returned
NoInputTurnDone ==
  /\ route = "speech" /\ pc = "done"
  /\ ~ recording_url /\ recording_duration = 0

\* C12: with no recording reference and duration 0, transcription is
\* skipped, the reply generator receives the non-empty sentinel, and the
\* returned instruction is record-next-turn.
C12_NoInputAlwaysRecords ==
  NoInputTurnDone =>
     /\ fetch_attempts = 0 /\ transcribe_calls = 0
     /\ user_content = NO_INPUT_SENTINEL /\ user_content # << >>
     /\ Continuation(response) = "record-next-turn"

\* C13: the classification of a reply and the continuation mode of its turn
\* are decided by the reply text alone, so two runs with the same transcript
\* and the same output of the reply generator agree on them whatever
\* synthesis, the audio file and the notification did in each run.
C13_ContinuationFromReplyAlone ==
  (route = "speech" /\ pc = "done" /\ generate_calls > 0) =>
     \A status \in {"no_key", "ok", "http_error", "network_error",
                     "open_error", "write_error", "stream_error",
                     "zero_bytes"} :
       tts_status = status =>
          /\ gpt_reply_text = strip(gpt_reply_text)
          /\ (Continuation(response) = "terminate") = IsEmergency(gpt_reply_text)

\* an emergency reply whose synthesis failed and whose notification was not
\* delivered
C13_Witness ==
  /\ route = "speech" /\ pc = "done"
  /\ IsEmergency(gpt_reply_text)
  /\ tts_status = "http_error"
  /\ Len(notified) = 1 /\ ~ notified[1].sent
  /\ response = << Say(gpt_reply_text) >>

\* the delivery of a turn that went through synthesis
PlayOrSay ==
  IF public_audio_url # NoURL THEN Play(public_audio_url)
  ELSE Say(text_to_speak)

\* the instruction of a finished turn as its path decides it, with no regard
\* to the mail settings or to what became of any notification
InstructionOfPath ==
  IF ~ client
  THEN << Say(IF route = "voice" THEN MSG_VOICE_NO_CLIENT
              ELSE MSG_SPEECH_NO_CLIENT) >>
  ELSE IF route = "voice"
  THEN << PlayOrSay, Record >>
  ELSE IF FetchFailed
  THEN << Say(FetchFailureMessage(fetch_status)), Record >>
  ELSE IF transcribe_calls > 0 /\ generate_calls = 0
  THEN << Say(MSG_TRANSCRIBE), Record >>
  ELSE << PlayOrSay >>
       \o (IF IsEmergency(gpt_reply_text) THEN << >> ELSE << Record >>)

\* C14: the instruction a turn returns is the same whether a notification
\* is delivered, fails in transport or cannot be sent for want of mail
\* settings, and notify_error never raises: every call of it returns, and no
\* handler is left by a fault that a notification caused.
C14_NotificationNeverReachesCaller ==
  /\ pc = "done" => response = InstructionOfPath
  /\ pc = "fault" => \A i \in 1..Len(notified) : notified[i].returned
  /\ pc \in {"done", "respond"} =>
        \A i \in 1..Len(notified) :
          notified[i].sent => smtp_ok

\* the ways the ElevenLabs request fails that the claim lists: an error
\* status, a network error or timeout, a success status with no bytes
ProviderFailures ==
  {"http_error", "network_error", "stream_error", "zero_bytes"}

\* C15: when the ElevenLabs request has failed (error status, network error
\* or timeout, zero-byte body with a success status) and
\* text_to_elevenlabs_audio has returned, notify_error has been called for
\* that failure, with the text that was to be spoken, before the turn
\* responds.
C15_SynthesisFailureNotified ==
  (pc \in {"respond", "done"} /\ tts_status \in ProviderFailures) =>
     \E i \in 1..Len(notified) :
       /\ notified[i].kind \in TTSKinds
       /\ notified[i].context = prefix(text_to_speak, 50)

\* the turn has returned after the fetch succeeded and Whisper failed
TranscriptionFailedTurn ==
  /\ pc = "done"
  /\ fetch_status = "ok"
  /\ transcribe_status = "error"

\* what a failed transcription leaves besides the text: the text is said,
\* the next turn is recorded, notify_error was called, neither GPT-4o nor
\* ElevenLabs was
TranscriptionFailureHandled ==
  /\ Len(response) = 2
  /\ response[1].verb = "Say"
  /\ Continuation(response) = "record-next-turn"
  /\ \E i \in 1..Len(notified) : notified[i].kind = "transcribe"
  /\ generate_calls = 0
  /\ synth_calls = 0 /\ tts_status = "none"

\* C16: a failed transcription answers with the same fallback
\* text as a failed fetch, said as text, with record-next-turn, notifies, and
\* invokes neither the generator nor the synthesizer; Whisper is called at
\* most once per turn.
C16_SameTextAsFetchFailure ==
  /\ transcribe_calls <= 1
  /\ TranscriptionFailedTurn =>
        /\ TranscriptionFailureHandled
        /\ response[1].text \in {MSG_FETCH_HTTP, MSG_FETCH_NETWORK}

\* a "didn't understand" pattern, as configuration of the classification
FALLBACK_PATTERN ==
  << "d", "i", "d", "n", "'", "t", " ", "u", "n", "d", "e", "r", "s", "t",
     "a", "n", "d" >>

\* isFallback: the text holds the pattern, in any case of letters
IsFallback(text) ==
  \E i \in 0..(Len(text) - Len(FALLBACK_PATTERN)) :
    \A k \in 1..Len(FALLBACK_PATTERN) :
      SameLetter(text[i + k], FALLBACK_PATTERN[k])

\* C17: when GPT-4o has answered and its reply is classified isFallback,
\* notify_error has been called about that reply, with the transcript as its
\* context, by the time the turn is about to respond.
C17_FallbackReplyNotified ==
  ( /\ pc \in {"respond", "done"}
    /\ generate_status = "ok"
    /\ IsFallback(gpt_reply_text) ) =>
     \E i \in 1..Len(notified) :
       /\ notified[i].kind \notin TTSKinds
       /\ notified[i].context = speech_result

\* C18: every external call of a turn is bounded by a timeout, so a turn
\* that has begun comes to its end, with an instruction or with the fault of
\* an exception, even when a dependency never answers.
C18_TurnEnds ==
  (pc = "entry") ~> (pc \in {"done", "fault"})

\* C19: whenever text_to_elevenlabs_audio has returned a URL, the URL is that
\* of the file of this turn, the stream was written to its end without an
\* error, the file exists and holds all the bytes the turn wrote, which are
\* more than none, up to the moment the instruction is returned; and a Play
\* verb is only ever emitted with such a URL.
C19_URLOnlyForWrittenAudio ==
  /\ (pc \in {"respond", "done"} /\ public_audio_url # NoURL) =>
        /\ tts_status = "ok"
        /\ public_audio_url = filename
        /\ filename \in 1..Len(files)
        /\ files[filename] # Absent
        /\ files[filename] = total_bytes_written
        /\ files[filename] > 0
  /\ pc = "done" =>
        \A i \in 1..Len(response) :
          response[i].verb = "Play" =>
             /\ public_audio_url # NoURL
             /\ response[i].url = public_audio_url

\* a reply was streamed in chunks, written and is played from its file
C19_Witness ==
  /\ pc = "done" /\ route = "speech"
  /\ chunks_read > 0
  /\ files[filename] = total_bytes_written
  /\ response = << Play(filename), Record >>

\* the files a step writes, truncates or removes
Touched == {k \in 1..Len(files) : files'[k] # files[k]}

\* the file a step creates the name of
Named == (1..Len(files')) \ (1..Len(files))

\* a step of this request, and a step of the request in the other thread
ThisSteps == peer' = peer
PeerSteps == peer' # peer

\* C20: whatever the interleaving of two requests, the two write to
\* different files, each under a name no file had before, every step writes
\* to, truncates or removes only the file of the request that takes it, and
\* the URL a request returns is that of its own file, which holds the bytes
\* that request wrote and no others.
C20_NoSharedAudioFile ==
  [][ /\ ThisSteps => Touched \subseteq {filename} \ {peer.filename}
      /\ PeerSteps => Touched \subseteq {peer.filename} \ {filename}
      /\ filename' # filename => filename' \in Named
      /\ (peer'.filename # peer.filename /\ peer'.filename # Absent) =>
            peer'.filename \in Named
      /\ (public_audio_url' # NoURL) =>
            /\ public_audio_url' = filename'
            /\ public_audio_url' # peer'.filename
            /\ files'[filename'] = total_bytes_written'
      /\ (peer'.public_audio_url # NoURL) =>
            /\ peer'.public_audio_url = peer'.filename
            /\ peer'.public_audio_url # filename'
            /\ files'[peer'.filename] = peer'.total_bytes_written
    ]_vars

\* both requests are in the middle of their streams, each with bytes in its
\* own file
C20_Witness ==
  /\ pc = "tts_write" /\ peer.pc = "tts_write"
  /\ filename # peer.filename
  /\ files[filename] > 0 /\ files[peer.filename] > 0
  /\ chunks_read < MaxChunks /\ peer.chunks_read < MaxChunks

\* C21: whenever text_to_elevenlabs_audio has returned no URL, no file that
\* the call created is left in the audio directory, whether the request
\* failed, the stream or a write broke after some chunks, or the body had no
\* bytes.
C21_NoFileLeftWithoutURL ==
  ( /\ pc \in {"respond", "done"}
    /\ tts_status # "none"
    /\ public_audio_url = NoURL
    /\ filename # Absent ) =>
     files[filename] = Absent

====
